---------------------------- MODULE Spec2Model ----------------------------
(***************************************************************************)
(* A model of daily_arxiv.py: the outbound request layer (http_get), the   *)
(* code-link resolver chain, the record store (update_json_file,           *)
(* update_paper_links) and the discovery driver (get_daily_papers).        *)
(*                                                                         *)
(* Python strings are modelled as sequences of tokens.  A token stands for *)
(* a fixed run of characters ("**", "null", "et.al.", a URL); every        *)
(* character the code inspects ("|", " ", "\n", "[", "]", "v", a digit) is *)
(* a token of its own, so split, strip, find, the substring test and the   *)
(* regular expressions are computed as the code computes them.             *)
(* Python's None is modelled as the empty sequence; URLs are non-empty.    *)
(***************************************************************************)
EXTENDS Integers, Sequences, FiniteSets, TLC

VARIABLES
    h,          \* http_get: the position and locals of one call
    k,          \* canonicalization: an identifier and the keys computed from it
    files,      \* the persisted store files, by view
    pc,         \* the pipeline driver's position
    run,        \* the driver's configuration and collected batches for this run
    calls,      \* the resolver invocations of the last operation, with their requests
    last,       \* the last store operation: its input, the file before it, its outcome
    md,         \* the rendered markdown files, by view
    pm,         \* pretty_math: a line and what the function made of it
    sv,         \* a store file being written back: the position of the writer
    lookup      \* get_repo_from_hf alone: a payload and the URL drawn from it

vars == <<h, k, files, pc, run, calls, last, md, pm, sv, lookup>>

-----------------------------------------------------------------------------
(* Bounds of the model *)

MaxRetries == 2
MaxVerLen == 2
MaxRuns == 2
MaxLineLen == 5
MaxHubLen == 2

-----------------------------------------------------------------------------
(* Python string operations on token sequences *)

None == << >>

Whitespace == {" ", "\n"}

Digits == {"0", "1", "2", "3", "4", "5", "6", "7", "8", "9"}

\* s[i:] and s[:i] with Python's 0-based offsets
From(s, i) == SubSeq(s, i + 1, Len(s))
Upto(s, i) == SubSeq(s, 1, i)

\* str.find: the 0-based offset of the first occurrence of token c, or -1
Find(s, c) ==
    IF \E i \in 1..Len(s) : s[i] = c
    THEN (CHOOSE i \in 1..Len(s) : s[i] = c /\ \A j \in 1..(i - 1) : s[j] # c) - 1
    ELSE -1

\* str.split(sep) for a one-character separator
RECURSIVE Split(_, _)
Split(s, sep) ==
    LET p == Find(s, sep)
    IN  IF p = -1 THEN <<s>>
        ELSE <<Upto(s, p)>> \o Split(From(s, p + 1), sep)

RECURSIVE LStrip(_)
LStrip(s) == IF s # << >> /\ Head(s) \in Whitespace THEN LStrip(Tail(s)) ELSE s

RECURSIVE RStrip(_)
RStrip(s) ==
    IF s # << >> /\ s[Len(s)] \in Whitespace THEN RStrip(Upto(s, Len(s) - 1)) ELSE s

\* str.strip()
Strip(s) == RStrip(LStrip(s))

StartsWith(s, p) == Len(p) <= Len(s) /\ Upto(s, Len(p)) = p

\* sub in s
Contains(s, sub) == \E i \in 0..(Len(s) - Len(sub)) : StartsWith(From(s, i), sub)

\* str.replace(old, new): every non-overlapping occurrence, left to right
RECURSIVE Replace(_, _, _)
Replace(s, old, new) ==
    IF s = << >> THEN << >>
    ELSE IF StartsWith(s, old) THEN new \o Replace(From(s, Len(old)), old, new)
    ELSE <<Head(s)>> \o Replace(Tail(s), old, new)

\* the number of leading digits of s
RECURSIVE DigitRun(_)
DigitRun(s) == IF s # << >> /\ Head(s) \in Digits THEN 1 + DigitRun(Tail(s)) ELSE 0

\* re.sub(r'v\d+', '', s): every match of "v" followed by one or more digits is removed
RECURSIVE ReSubVersion(_)
ReSubVersion(s) ==
    IF s = << >> THEN << >>
    ELSE IF Head(s) = "v" /\ DigitRun(Tail(s)) > 0
         THEN ReSubVersion(From(s, 1 + DigitRun(Tail(s))))
         ELSE <<Head(s)>> \o ReSubVersion(Tail(s))

\* re.search(r'\[(.*?)\]', s): group 1 of the leftmost match, or None when none.
\* "." does not match a line break.
BracketMatchAt(s, i) ==
    /\ s[i] = "["
    /\ \E j \in (i + 1)..Len(s) :
          s[j] = "]" /\ \A m \in (i + 1)..(j - 1) : s[m] \notin {"]", "\n"}

HasBracketGroup(s) == \E i \in 1..Len(s) : BracketMatchAt(s, i)

BracketGroup(s) ==
    LET i == CHOOSE x \in 1..Len(s) :
                 BracketMatchAt(s, x) /\ \A y \in 1..(x - 1) : ~BracketMatchAt(s, y)
        j == CHOOSE x \in (i + 1)..Len(s) :
                 s[x] = "]" /\ \A m \in (i + 1)..(x - 1) : s[m] # "]"
    IN  SubSeq(s, i + 1, j - 1)

-----------------------------------------------------------------------------
(* Python dicts keep insertion order: a dict is a sequence of <<key, value>> *)
(* pairs with distinct keys.                                                *)

EmptyDict == << >>

DictKeys(d) == {d[i][1] : i \in 1..Len(d)}

DictHas(d, key) == key \in DictKeys(d)

DictGet(d, key) == d[CHOOSE i \in 1..Len(d) : d[i][1] = key][2]

\* d[key] = v : an existing key keeps its place, a new key is appended
DictSetAppends(d, key, v) == Append(d, <<key, v>>)
DictSet(d, key, v) ==
    IF DictHas(d, key)
    THEN [i \in 1..Len(d) |-> IF d[i][1] = key THEN <<key, v>> ELSE d[i]]
    ELSE Append(d, <<key, v>>)

\* d.update(e)
RECURSIVE DictUpdate(_, _)
DictUpdate(d, e) ==
    IF e = << >> THEN d ELSE DictUpdate(DictSet(d, Head(e)[1], Head(e)[2]), Tail(e))


-----------------------------------------------------------------------------
(* http_get: GET with retries *)

\* what one requests.get can do: answer with a status, or raise
Status(code) == [kind |-> "status", code |-> code]
TransportError == [kind |-> "exception", code |-> 0]
AttemptOutcomes == {Status(200), Status(403), Status(500), TransportError}

\* range(retries + 1)
HttpAttemptsBug(retries) == retries + 2
HttpAttempts(retries) == retries + 1

HttpIdle == [pc |-> "idle", retries |-> 0, i |-> 0, log |-> << >>,
             ret |-> [kind |-> "unset", attempt |-> 0], last_exc |-> FALSE]

\* the call: last_exc = None, the loop is entered
HttpCall(retries) ==
    /\ h.pc = "idle"
    /\ h' = [HttpIdle EXCEPT !.pc = "loop", !.retries = retries]
    /\ UNCHANGED <<k, files, pc, run, calls, last, md, pm, sv, lookup>>

\* one pass of the loop body: the request, then return on 200, else log and sleep
HttpAttempt(o) ==
    /\ h.pc = "loop"
    /\ h.i < HttpAttempts(h.retries)
    /\ h' = IF o.kind = "status" /\ o.code = 200
            THEN [h EXCEPT !.log = Append(@, o), !.pc = "returned",
                           !.ret = [kind |-> "response", attempt |-> h.i + 1]]
            ELSE [h EXCEPT !.log = Append(@, o), !.i = @ + 1,
                           !.last_exc = IF o.kind = "exception" THEN TRUE ELSE @]
    /\ UNCHANGED <<k, files, pc, run, calls, last, md, pm, sv, lookup>>

\* the loop is exhausted: return None
HttpGiveUp ==
    /\ h.pc = "loop"
    /\ h.i >= HttpAttempts(h.retries)
    /\ h' = [h EXCEPT !.pc = "returned", !.ret = [kind |-> "None", attempt |-> 0]]
    /\ UNCHANGED <<k, files, pc, run, calls, last, md, pm, sv, lookup>>

-----------------------------------------------------------------------------
(* Canonical keys *)

\* get_daily_papers: ver_pos = paper_id.find('v'); paper_id[:ver_pos]
PaperKey(paper_id) ==
    LET ver_pos == Find(paper_id, "v")
    IN  IF ver_pos = -1 THEN paper_id ELSE Upto(paper_id, ver_pos)

\* parse_arxiv_string: the key of a '[key](url)' field, its versions removed
ParseArxivId(pdf_field) ==
    LET arxiv_id == IF HasBracketGroup(pdf_field)
                    THEN Strip(BracketGroup(pdf_field))
                    ELSE pdf_field
    IN  ReSubVersion(arxiv_id)

arxiv_url == <<"https://arxiv.org/">>

\* '[key](url)' as get_daily_papers writes it
PdfField(paper_key) ==
    <<"[">> \o paper_key \o <<"]", "(">> \o arxiv_url \o <<"abs/">> \o paper_key \o <<")">>

\* identifiers as arXiv issues them: an optional archive prefix, a number, an
\* optional version suffix
Archives == { << >>,
              <<"h", "e", "p", "-", "t", "h", "/">>,
              <<"s", "o", "l", "v", "-", "i", "n", "t", "/">> }
Numbers == { <<"2", "1", "0", "8", ".", "0", "9">>, <<"9", "9", "0", "1">>, <<"7">> }
RECURSIVE DigitStrings(_)
DigitStrings(n) ==
    IF n = 0 THEN {<< >>}
    ELSE DigitStrings(n - 1) \cup
         {<<d>> \o s : d \in {"1", "2"}, s \in {x \in DigitStrings(n - 1) : Len(x) = n - 1}}
VersionSuffixes == {<< >>} \cup {<<"v">> \o d : d \in DigitStrings(MaxVerLen) \ {<< >>}}
Identifiers == {a \o n \o v : a \in Archives, n \in Numbers, v \in VersionSuffixes}

KeyIdle == [pc |-> "idle", id |-> << >>, key |-> << >>, again |-> << >>, parsed |-> << >>]

\* get_daily_papers computes the key of a result, and of the key itself
Canonicalize ==
    /\ k.pc = "given"
    /\ k' = [k EXCEPT !.pc = "keyed", !.key = PaperKey(k.id),
                      !.again = PaperKey(PaperKey(k.id))]
    /\ UNCHANGED <<h, files, pc, run, calls, last, md, pm, sv, lookup>>

\* the backfill pass reads the key back from the stored '[key](url)' field
Reparse ==
    /\ k.pc = "keyed"
    /\ k' = [k EXCEPT !.pc = "parsed", !.parsed = ParseArxivId(PdfField(k.key))]
    /\ UNCHANGED <<h, files, pc, run, calls, last, md, pm, sv, lookup>>

-----------------------------------------------------------------------------
(* The resolver stages.  What the network answers a stage is an input:      *)
(* kind "none" is http_get returning None, "empty" a 200 response without   *)
(* items, "bad" a 200 response whose JSON cannot be parsed or whose first   *)
(* item cannot be read, "hit" a first item with an html_url.                *)

StageOrder == <<"hub", "qtitle", "qid", "readme", "title", "id">>
SearchStages == {"qtitle", "qid", "readme", "title", "id"}

SearchKinds == {"none", "empty", "bad", "hit"}

\* the html_url a search stage's first item carries when it has one
StageUrl(stage) == <<"https://github.com/", stage>>

HubNone == [kind |-> "none", spaces |-> << >>, models |-> << >>, datasets |-> << >>]
HubBad == [kind |-> "bad", spaces |-> << >>, models |-> << >>, datasets |-> << >>]
HubJson(s, m, d) == [kind |-> "json", spaces |-> s, models |-> m, datasets |-> d]

\* get_repo_from_hf.pick: the URL of the first entry that has an id
pickFirstOnly(arr, t) ==
    IF arr = << >> \/ Head(arr).id = None THEN None
    ELSE <<"https://huggingface.co/", t, "/">> \o Head(arr).id
RECURSIVE pick(_, _)
pick(arr, t) ==
    IF arr = << >> THEN None
    ELSE IF Head(arr).id # None THEN <<"https://huggingface.co/", t, "/">> \o Head(arr).id
    ELSE pick(Tail(arr), t)

\* a or b, on values that are None or a URL
Or(a, b) == IF a # None THEN a ELSE b

\* one request of a stage: what the network answered, and the URL the stage drew
\* from the answer (None: absent)
Req(stage, answer, got) == [stage |-> stage, answer |-> answer, got |-> got]

\* get_repo_from_hf: one request; None when it fails or the payload cannot be read
get_repo_from_hf(resp) ==
    LET url == IF resp.kind # "json" THEN None
               ELSE Or(pick(resp.spaces, "spaces"),
                       Or(pick(resp.models, "models"), pick(resp.datasets, "datasets")))
    IN  [reqs |-> <<Req("hub", resp.kind, url)>>, url |-> url]

\* get_code_link: one repository search with the bare query word
get_code_link(stage, kind) ==
    LET url == IF kind = "hit" THEN StageUrl(stage) ELSE None
    IN  [reqs |-> <<Req(stage, kind, url)>>, url |-> url]

\* find_code_repo: three searches under one try; an exception ends the function
find_code_repo(net) ==
    LET step(stage, rest) ==
            IF net[stage] = "hit"
            THEN [reqs |-> <<Req(stage, "hit", StageUrl(stage))>>, url |-> StageUrl(stage)]
            ELSE IF net[stage] = "bad"
            THEN [reqs |-> <<Req(stage, "bad", None)>>, url |-> None]
            ELSE [reqs |-> <<Req(stage, net[stage], None)>> \o rest.reqs, url |-> rest.url]
        third  == step("readme", [reqs |-> << >>, url |-> None])
        second == step("qid", third)
    IN  step("qtitle", second)

\* b is evaluated only when a gave None
OrElse(a, b) == IF a.url # None THEN a ELSE [reqs |-> a.reqs \o b.reqs, url |-> b.url]

\* find_code_repo(...) or get_code_link(title) or get_code_link(key)
SearchChain(net) ==
    OrElse(find_code_repo(net),
           OrElse(get_code_link("title", net["title"]), get_code_link("id", net["id"])))

\* get_daily_papers: the hub first; the searches if repo_url is None
ResolveDiscoveryBug(net) ==
    LET a == SearchChain(net) b == get_repo_from_hf(net["hub"])
    IN  OrElse(a, b)
ResolveDiscovery(net) ==
    LET hf == get_repo_from_hf(net["hub"])
    IN  IF hf.url = None
        THEN LET rest == SearchChain(net)
             IN  [reqs |-> hf.reqs \o rest.reqs, url |-> rest.url]
        ELSE hf

\* update_paper_links: one or-chain over the four calls
ResolveBackfill(net) == OrElse(get_repo_from_hf(net["hub"]), SearchChain(net))

\* what the network answers each stage for one paper
NetOf(hub, kinds) == [s \in {"hub"} \cup SearchStages |-> IF s = "hub" THEN hub ELSE kinds[s]]
HubFew == {HubNone, HubBad, HubJson(<< >>, << >>, << >>),
           HubJson(<< >>, <<[id |-> <<"org/a">>]>>, <<[id |-> <<"org/a">>]>>)}
ResolveNets == {NetOf(hub, kinds) : hub \in HubFew, kinds \in [SearchStages -> SearchKinds]}
NetAbsent == NetOf(HubNone, [s \in SearchStages |-> "none"])
NetHubHit == NetOf(HubJson(<< >>, <<[id |-> <<"org/a">>]>>, << >>), [s \in SearchStages |-> "hit"])
NetLastHit == NetOf(HubBad, [s \in SearchStages |-> IF s = "id" THEN "hit" ELSE "empty"])
FewNets == {NetAbsent, NetHubHit, NetLastHit}

-----------------------------------------------------------------------------
(* Records *)

NullMarker == <<"|", "null", "|">>
Link(repo_url) == <<"**", "[", "link", "]", "(">> \o repo_url \o <<")", "**">>
PaperUrl(paper_key) == arxiv_url \o <<"abs/">> \o paper_key

\* get_daily_papers: the table row stored in content[paper_key]
TableRowBlank(update_time, paper_title, paper_first_author, paper_key, repo_url) ==
    <<"|", "**">> \o update_time \o <<"**", "|", "**">> \o paper_title \o <<"**", "|">>
        \o paper_first_author \o <<" ", "et.al.", "|", "[">> \o paper_key \o <<"]", "(">>
        \o PaperUrl(paper_key) \o <<")", "|">>
        \o (IF repo_url # None THEN Link(repo_url) ELSE << >>) \o <<"|", "\n">>
TableRow(update_time, paper_title, paper_first_author, paper_key, repo_url) ==
    <<"|", "**">> \o update_time \o <<"**", "|", "**">> \o paper_title \o <<"**", "|">>
        \o paper_first_author \o <<" ", "et.al.", "|", "[">> \o paper_key \o <<"]", "(">>
        \o PaperUrl(paper_key) \o <<")", "|">>
        \o (IF repo_url # None THEN Link(repo_url) ELSE <<"null">>) \o <<"|", "\n">>

\* get_daily_papers: the bullet line stored in content_to_web[paper_key]
WebLine(update_time, paper_title, paper_first_author, paper_key, repo_url) ==
    <<"-", " ">> \o update_time \o <<",", " ", "**">> \o paper_title \o <<"**", ",", " ">>
        \o paper_first_author \o <<" ", "et.al.", ",", " ", "Paper:", " ", "[">>
        \o PaperUrl(paper_key) \o <<"]", "(">> \o PaperUrl(paper_key) \o <<")">>
        \o (IF repo_url # None
            THEN <<",", " ", "Code:", " ", "**", "[">> \o repo_url \o <<"]", "(">>
                     \o repo_url \o <<")", "**">>
            ELSE << >>)
        \o <<"\n">>

\* update_paper_links.parse_arxiv_string, given s.split("|"); ok is FALSE when an
\* index is out of range
ParseParts(parts) ==
    IF Len(parts) < 6
    THEN [ok |-> FALSE, date |-> << >>, title |-> << >>, authors |-> << >>,
          arxiv_id |-> << >>, code |-> << >>, pdf_field |-> << >>]
    ELSE [ok |-> TRUE,
          date |-> Strip(parts[2]), title |-> Strip(parts[3]),
          authors |-> Strip(parts[4]), arxiv_id |-> ParseArxivId(Strip(parts[5])),
          code |-> Strip(parts[6]), pdf_field |-> Strip(parts[5])]

parse_arxiv_string(s) == ParseParts(Split(s, "|"))

\* "|{}|{}|{}|{}|{}|\n".format(update_time, paper_title, paper_first_author, paper_url_field, code_url)
Reformat(f) ==
    <<"|">> \o f.date \o <<"|">> \o f.title \o <<"|">> \o f.authors \o <<"|">>
        \o f.pdf_field \o <<"|">> \o f.code \o <<"|", "\n">>

\* valid_link = False if '|null|' in contents else True
valid_link(contents) == ~Contains(contents, NullMarker)

-----------------------------------------------------------------------------
(* get_daily_papers *)

Paper(id, title) ==
    [id |-> id, title |-> title, first_author |-> <<"A">>, update_time |-> <<"2024-01-01">>]
PaperT == Paper(<<"1", "v", "1">>, <<"T">>)
PaperPipe == Paper(<<"2", "v", "1">>, <<"P", "|", "Q">>)
PaperNullWord == Paper(<<"3", "v", "2">>, <<"P", "|", "null", "|", "Q">>)

\* what the literature search yields for one query: a finite list of papers
SearchResults ==
    { << >>, <<PaperT>>, <<PaperPipe>>, <<PaperNullWord>>, <<PaperT, PaperPipe>> }

\* one invocation of the resolver chain: for which record, its requests, its result
Call(topic, paper_id, paper_key, res) ==
    [topic |-> topic, paper_id |-> paper_id, paper_key |-> paper_key,
     reqs |-> res.reqs, url |-> res.url]

\* the loop over the results: the key, the resolver chain, the two fragments
RECURSIVE CollectPapers(_, _, _, _)
CollectPapers(topic, results, nets, acc) ==
    IF results = << >> THEN acc
    ELSE LET result    == Head(results)
             paper_key == PaperKey(result.id)
             res       == ResolveDiscovery(Head(nets))
             row       == TableRow(result.update_time, result.title, result.first_author,
                                   paper_key, res.url)
             line      == WebLine(result.update_time, result.title, result.first_author,
                                  paper_key, res.url)
         IN  CollectPapers(topic, Tail(results), Tail(nets),
                 [content        |-> DictSet(acc.content, paper_key, row),
                  content_to_web |-> DictSet(acc.content_to_web, paper_key, line),
                  calls          |-> Append(acc.calls,
                                            Call(topic, paper_key, paper_key, res))])

\* get_daily_papers(topic, ...): data, data_web and the resolver invocations made
get_daily_papers(topic, results, nets) ==
    LET acc == CollectPapers(topic, results, nets,
                   [content |-> EmptyDict, content_to_web |-> EmptyDict, calls |-> << >>])
    IN  [data     |-> <<<<topic, acc.content>>>>,
         data_web |-> <<<<topic, acc.content_to_web>>>>,
         calls    |-> acc.calls]

-----------------------------------------------------------------------------
(* The store files *)

AbsentFile == [kind |-> "absent", store |-> EmptyDict]
EmptyFile == [kind |-> "empty", store |-> EmptyDict]
JsonFile(m) == [kind |-> "json", store |-> m]

\* open(filename, "r") raises when there is no file
OpenRaises(file) == file.kind = "absent"

\* content = f.read(); m = {} if not content else json.loads(content)
LoadStore(file) == IF file.kind = "json" THEN file.store ELSE EmptyDict

\* update_json_file: the loop over data_dict and over each batch's keywords
RECURSIVE MergeBatchReplaces(_, _)
MergeBatchReplaces(json_data, data) ==
    IF data = << >> THEN json_data
    ELSE MergeBatchReplaces(DictSet(json_data, Head(data)[1], Head(data)[2]), Tail(data))
RECURSIVE MergeBatch(_, _)
MergeBatch(json_data, data) ==
    IF data = << >> THEN json_data
    ELSE LET keyword == Head(data)[1]
             papers  == Head(data)[2]
         IN  MergeBatch(IF DictHas(json_data, keyword)
                        THEN DictSet(json_data, keyword,
                                     DictUpdate(DictGet(json_data, keyword), papers))
                        ELSE DictSet(json_data, keyword, papers),
                        Tail(data))

RECURSIVE MergeStore(_, _)
MergeStore(json_data, data_dict) ==
    IF data_dict = << >> THEN json_data
    ELSE MergeStore(MergeBatch(json_data, Head(data_dict)), Tail(data_dict))

\* update_paper_links, after the search: new_cont replaces the marker when a URL came
Relinked(keywords, paper_id, f, normal, nets, res) ==
    [contents |-> IF res.url # None
                  THEN Replace(normal, NullMarker, <<"|">> \o Link(res.url) \o <<"|">>)
                  ELSE normal,
     nets     |-> Tail(nets),
     calls    |-> <<Call(keywords, paper_id, f.arxiv_id, res)>>]

\* update_paper_links, after the parse: the normalized row is stored; a row without
\* '|null|' is left at that, another has the resolver chain run for it
Reparsed(keywords, paper_id, f, normal, nets) ==
    IF valid_link(normal) THEN [contents |-> normal, nets |-> nets, calls |-> << >>]
    ELSE Relinked(keywords, paper_id, f, normal, nets, ResolveBackfill(Head(nets)))

\* update_paper_links: the body of the loop for one record.  nets holds what the
\* network answers the resolver invocations still to come.  A record that cannot
\* be parsed raises inside the try and is left as it is.
BackfillParsed(keywords, paper_id, contents, nets, f) ==
    IF ~f.ok THEN [contents |-> contents, nets |-> nets, calls |-> << >>]
    ELSE Reparsed(keywords, paper_id, f, Reformat(f), nets)

BackfillRecord(keywords, paper_id, contents, nets) ==
    BackfillParsed(keywords, paper_id, contents, nets, parse_arxiv_string(contents))

\* the loop over list(v.items())
RECURSIVE BackfillPapers(_, _, _, _)
PapersDone(paper_id, one, rest) ==
    [papers |-> <<<<paper_id, one.contents>>>> \o rest.papers,
     nets   |-> rest.nets,
     calls  |-> rest.calls]
PapersNextStops(keywords, v, made, one) ==
    IF ~parse_arxiv_string(Head(v)[2]).ok
    THEN [papers |-> v, nets |-> one.nets, calls |-> made]
    ELSE PapersDone(Head(v)[1], one,
                    BackfillPapers(keywords, Tail(v), one.nets, made \o one.calls))
PapersNext(keywords, v, made, one) ==
    PapersDone(Head(v)[1], one, BackfillPapers(keywords, Tail(v), one.nets, made \o one.calls))
BackfillPapers(keywords, v, nets, made) ==
    IF v = << >> THEN [papers |-> << >>, nets |-> nets, calls |-> made]
    ELSE PapersNext(keywords, v, made, BackfillRecord(keywords, Head(v)[1], Head(v)[2], nets))

\* the loop over json_data.items()
RECURSIVE BackfillStore(_, _, _)
StoreDone(keywords, one, rest) ==
    [store |-> <<<<keywords, one.papers>>>> \o rest.store, calls |-> rest.calls]
StoreNext(json_data, one) ==
    StoreDone(Head(json_data)[1], one, BackfillStore(Tail(json_data), one.nets, one.calls))
BackfillStore(json_data, nets, made) ==
    IF json_data = << >> THEN [store |-> << >>, calls |-> made]
    ELSE StoreNext(json_data,
                   BackfillPapers(Head(json_data)[1], Head(json_data)[2], nets, made))

\* the number of records the pass will run the resolver for
RECURSIVE Flatten(_)
Flatten(json_data) ==
    IF json_data = << >> THEN << >>
    ELSE [i \in 1..Len(Head(json_data)[2]) |-> Head(json_data)[2][i][2]]
             \o Flatten(Tail(json_data))
ResolverRuns(json_data) ==
    LET recs == Flatten(json_data)
    IN  Cardinality({i \in 1..Len(recs) :
            BackfillRecord("", << >>, recs[i], <<NetAbsent>>).calls # << >>})

-----------------------------------------------------------------------------
(* json_to_md.pretty_math *)

\* re.search(r"\$.*\$", s) can match from i to j: "." does not match a line break
MathMatchAt(s, i, j) ==
    /\ i < j
    /\ s[i] = "$"
    /\ s[j] = "$"
    /\ \A m \in (i + 1)..(j - 1) : s[m] # "\n"

\* the positions a match can start or end at
DollarAt(s) == {i \in 1..Len(s) : s[i] = "$"}

HasMath(s) == \E i, j \in DollarAt(s) : MathMatchAt(s, i, j)

\* match.span(): the leftmost start, and from it the longest match (".*" is greedy)
MathStart(s) ==
    (CHOOSE i \in DollarAt(s) :
        /\ \E j \in DollarAt(s) : MathMatchAt(s, i, j)
        /\ \A y \in DollarAt(s) : y < i => \A j \in DollarAt(s) : ~MathMatchAt(s, y, j)) - 1
MathEnd(s) ==
    CHOOSE j \in DollarAt(s) :
        /\ MathMatchAt(s, MathStart(s) + 1, j)
        /\ \A y \in DollarAt(s) : y > j => ~MathMatchAt(s, MathStart(s) + 1, y)

\* the line rebuilt around the match: a space on a side that has a character other
\* than ' ' and '*', the inside of the match stripped
MathRebuilt(s, math_start, math_end) ==
    LET space_trail   == IF math_start > 0 /\ s[math_start] # " " /\ s[math_start] # "*"
                         THEN <<" ">> ELSE << >>
        space_leading == IF math_end < Len(s) /\ s[math_end + 1] # " "
                                /\ s[math_end + 1] # "*"
                         THEN <<" ">> ELSE << >>
    IN  Upto(s, math_start) \o space_trail \o <<"$">>
            \o Strip(SubSeq(s, math_start + 2, math_end - 1)) \o <<"$">>
            \o space_leading \o From(s, math_end)

\* the inside of the match is kept as it is
pretty_mathKeepsInside(s) ==
    IF ~HasMath(s) THEN s
    ELSE LET math_start == MathStart(s)
             math_end   == MathEnd(s)
         IN  Upto(s, math_start)
                 \o (IF math_start > 0 /\ s[math_start] \notin {" ", "*"} THEN <<" ">> ELSE << >>)
                 \o SubSeq(s, math_start + 1, math_end)
                 \o (IF math_end < Len(s) /\ s[math_end + 1] \notin {" ", "*"}
                     THEN <<" ">> ELSE << >>)
                 \o From(s, math_end)
pretty_math(s) == IF ~HasMath(s) THEN s ELSE MathRebuilt(s, MathStart(s), MathEnd(s))

MathIdle == [pc |-> "idle", s |-> << >>, ret |-> << >>]

\* the characters of a line that pretty_math tells apart
MathAlphabet == {"$", " ", "*", "a", "\n"}
RECURSIVE LinesOfLen(_)
LinesOfLen(n) ==
    IF n = 0 THEN {<< >>}
    ELSE {Append(t, c) : t \in LinesOfLen(n - 1), c \in MathAlphabet}
MathLines == UNION {LinesOfLen(n) : n \in 0..MaxLineLen}

\* f.write(pretty_math(v)): the function applied to one line
PrettyMath ==
    /\ pm.pc = "given"
    /\ pm' = [pm EXCEPT !.pc = "done", !.ret = pretty_math(pm.s)]
    /\ UNCHANGED <<h, k, files, pc, run, calls, last, md, sv, lookup>>

-----------------------------------------------------------------------------
(* sort_papers and json_to_md *)

\* the characters of paper keys, in the order of their code points
CodePoints == <<"-", ".", "/", "0", "1", "2", "3", "4", "5", "6", "7", "8", "9",
                "e", "h", "i", "l", "n", "o", "p", "s", "t", "v">>
Ord(c) == CHOOSE i \in 1..Len(CodePoints) : CodePoints[i] = c

\* a < b on Python strings
RECURSIVE StrLess(_, _)
StrLess(a, b) ==
    IF a = << >> THEN b # << >>
    ELSE IF b = << >> THEN FALSE
    ELSE IF Head(a) = Head(b) THEN StrLess(Tail(a), Tail(b))
    ELSE Ord(Head(a)) < Ord(Head(b))

\* keys.sort(reverse=True)
RECURSIVE InsertDescending(_, _)
InsertDescending(key, keys) ==
    IF keys = << >> THEN <<key>>
    ELSE IF StrLess(Head(keys), key) THEN <<key>> \o keys
    ELSE <<Head(keys)>> \o InsertDescending(key, Tail(keys))
RECURSIVE SortDescending(_)
SortDescending(keys) ==
    IF keys = << >> THEN << >>
    ELSE InsertDescending(Head(keys), SortDescending(Tail(keys)))

\* sort_papers: the papers again, in the order of the sorted keys
sort_papersKeepsOrder(papers) == papers
sort_papers(papers) ==
    LET keys == SortDescending([i \in 1..Len(papers) |-> papers[i][1]])
    IN  [i \in 1..Len(keys) |-> <<keys[i], DictGet(papers, keys[i])>>]

\* the options of json_to_md
Options ==
    [to_web : BOOLEAN, use_title : BOOLEAN, use_tc : BOOLEAN, show_badge : BOOLEAN,
     use_b2t : BOOLEAN]

\* str.lower() on the words the renderer lowers
Lower(word) ==
    CASE word = "#Updated" -> "#updated"
      [] word = "SLAM"     -> "slam"
      [] OTHER             -> word
LowerAll(str) == [i \in 1..Len(str) |-> Lower(str[i])]

\* str(datetime.date.today()).replace('-','.')
DateNow(today) == Replace(today, <<"-">>, <<".">>)

FrontMatter == <<"---\n", "layout: default\n", "---\n\n">>
BadgeLines ==
    <<"[![Contributors][contributors-shield]][contributors-url]\n",
      "[![Forks][forks-shield]][forks-url]\n",
      "[![Stargazers][stars-shield]][stars-url]\n",
      "[![Issues][issues-shield]][issues-url]\n\n">>
UsageLine == <<"> Usage instructions: [here](./docs/README.md#usage)\n\n">>
BadgeLinks ==
    <<"[contributors-shield]: https://img.shields.io/github/contributors/Vincentqyw/cv-arxiv-daily.svg?style=for-the-badge\n",
      "[contributors-url]: https://github.com/Vincentqyw/cv-arxiv-daily/graphs/contributors\n",
      "[forks-shield]: https://img.shields.io/github/forks/Vincentqyw/cv-arxiv-daily.svg?style=for-the-badge\n",
      "[forks-url]: https://github.com/Vincentqyw/cv-arxiv-daily/network/members\n",
      "[stars-shield]: https://img.shields.io/github/stars/Vincentqyw/cv-arxiv-daily.svg?style=for-the-badge\n",
      "[stars-url]: https://github.com/Vincentqyw/cv-arxiv-daily/stargazers\n",
      "[issues-shield]: https://img.shields.io/github/issues/Vincentqyw/cv-arxiv-daily.svg?style=for-the-badge\n",
      "[issues-url]: https://github.com/Vincentqyw/cv-arxiv-daily/issues\n\n">>

\* the writes before the table of contents
MdHead(opts, today) ==
    (IF opts.use_title /\ opts.to_web THEN FrontMatter ELSE << >>)
        \o (IF opts.show_badge THEN BadgeLines ELSE << >>)
        \o (IF opts.use_title THEN <<"## Updated on ">> ELSE <<"> Updated on ">>)
        \o DateNow(today) \o <<"\n">>
        \o UsageLine

\* the table of contents: one entry for every keyword that has papers
RECURSIVE TocEntries(_)
TocEntries(data) ==
    IF data = << >> THEN << >>
    ELSE (IF Head(data)[2] = EmptyDict THEN << >>
          ELSE <<"    <li><a href=#">>
                   \o LowerAll(Replace(<<Head(data)[1]>>, <<" ">>, <<"-">>))
                   \o <<">", Head(data)[1], "</a></li>\n">>)
             \o TocEntries(Tail(data))
TocOpen == <<"<details>\n", "  <summary>Table of Contents</summary>\n", "  <ol>\n">>
TocClose == <<"  </ol>\n", "</details>\n\n">>
MdToc(data, opts) ==
    IF opts.use_tc THEN TocOpen \o TocEntries(data) \o TocClose ELSE << >>

\* f.write(pretty_math(v)) for every paper of the sorted topic
RECURSIVE MdRows(_)
MdRows(day_content) ==
    IF day_content = << >> THEN << >>
    ELSE pretty_math(Head(day_content)[2]) \o MdRows(Tail(day_content))

TableHead(opts) ==
    IF ~opts.use_title THEN << >>
    ELSE IF ~opts.to_web
         THEN <<"|Publish Date|Title|Authors|PDF|Code|\n", "|---|---|---|---|---|\n">>
         ELSE <<"| Publish Date | Title | Authors | PDF | Code |\n",
                "|:---------|:-----------------------|:---------|:------|:------|\n">>

\* top_info.replace(' ','-').replace('.','').lower()
BackToTop(today) ==
    <<"<p align=right>(<a href=">>
        \o LowerAll(Replace(Replace(<<"#Updated", " ", "on", " ">> \o DateNow(today),
                                    <<" ">>, <<"-">>),
                            <<".">>, << >>))
        \o <<">back to top</a>)</p>\n\n">>

\* the section of one keyword
MdSection(keyword, day_content, opts, today) ==
    <<"## ", keyword, "\n\n">> \o TableHead(opts) \o MdRows(sort_papers(day_content))
        \o <<"\n">> \o (IF opts.use_b2t THEN BackToTop(today) ELSE << >>)

\* the loop over data.keys(): a keyword without papers is passed over
RECURSIVE MdSectionsAll(_, _, _)
MdSectionsAll(data, opts, today) ==
    IF data = << >> THEN << >>
    ELSE MdSection(Head(data)[1], Head(data)[2], opts, today)
             \o MdSectionsAll(Tail(data), opts, today)
RECURSIVE MdSections(_, _, _)
MdSections(data, opts, today) ==
    IF data = << >> THEN << >>
    ELSE (IF Head(data)[2] = EmptyDict THEN << >>
          ELSE MdSection(Head(data)[1], Head(data)[2], opts, today))
             \o MdSections(Tail(data), opts, today)

\* open(md_filename,"w+"): the file is emptied; open(md_filename,"a+") and
\* f.write: the text goes to the end of what the file holds
OpenKeeps(content) == content
OpenTruncated(content) == << >>
Written(content, text) == content \o text

\* json_to_md on a loaded store: what md_filename holds afterwards
json_to_md(content, data, opts, today) ==
    Written(OpenTruncated(content),
            MdHead(opts, today) \o MdToc(data, opts) \o MdSections(data, opts, today)
                \o (IF opts.show_badge THEN BadgeLinks ELSE << >>))

\* today's date as str(datetime.date.today()) gives it
Days == {<<"2024", "-", "01", "-", "02">>, <<"2024", "-", "01", "-", "03">>}

-----------------------------------------------------------------------------
(* Writing a store file back, step by step *)

(* update_json_file and update_paper_links end with                         *)
(*     with open(filename,"w") as f: json.dump(json_data,f)                 *)
(* open(..., "w") truncates the file, json.dump writes the text in chunks,  *)
(* and leaving the with block closes the file.  The process can be stopped  *)
(* between any two of these.                                                *)

SaveIdle == [pc |-> "idle", view |-> "", old |-> AbsentFile, new |-> EmptyDict]

\* a file that holds the first chunks of the JSON text of m
PartialFile(m) == [kind |-> "partial", store |-> m]

\* json.loads raises on a text that is not complete
LoadRaises(file) == file.kind = "partial"

\* the operation up to its open(filename,"w"): the store is loaded and the new
\* store computed
SaveComputed(view, new) ==
    /\ sv.pc = "idle"
    /\ sv' = IF OpenRaises(files[view]) \/ LoadRaises(files[view])
             THEN [sv EXCEPT !.pc = "raised", !.view = view, !.old = files[view]]
             ELSE [pc |-> "computed", view |-> view, old |-> files[view], new |-> new]
    /\ UNCHANGED <<h, k, files, pc, run, calls, last, md, pm, lookup>>

\* update_json_file(filename, data_dict), before its dump
SaveMerge(view, data_dict) ==
    SaveComputed(view, MergeStore(LoadStore(files[view]), data_dict))

\* update_paper_links(filename), before its dump
SaveBackfill(view, nets) ==
    SaveComputed(view, BackfillStore(LoadStore(files[view]), nets, << >>).store)

\* open(filename,"w"): the file exists and is empty
SaveOpen ==
    /\ sv.pc = "computed"
    /\ files' = [files EXCEPT ![sv.view] = EmptyFile]
    /\ sv' = [sv EXCEPT !.pc = "opened"]
    /\ UNCHANGED <<h, k, pc, run, calls, last, md, pm, lookup>>

\* json.dump has written some of its chunks
SaveDumpSome ==
    /\ sv.pc = "opened"
    /\ sv.new # EmptyDict
    /\ files' = [files EXCEPT ![sv.view] = PartialFile(sv.new)]
    /\ sv' = [sv EXCEPT !.pc = "dumping"]
    /\ UNCHANGED <<h, k, pc, run, calls, last, md, pm, lookup>>

\* json.dump has written its last chunk and the file is closed
SaveDumpAll ==
    /\ sv.pc \in {"opened", "dumping"}
    /\ files' = [files EXCEPT ![sv.view] = JsonFile(sv.new)]
    /\ sv' = [sv EXCEPT !.pc = "closed"]
    /\ UNCHANGED <<h, k, pc, run, calls, last, md, pm, lookup>>

\* the process is stopped (a signal, a cancelled job) before the file is closed
SaveInterrupted ==
    /\ sv.pc \in {"computed", "opened", "dumping"}
    /\ sv' = [sv EXCEPT !.pc = "stopped"]
    /\ UNCHANGED <<h, k, files, pc, run, calls, last, md, pm, lookup>>

-----------------------------------------------------------------------------
(* get_repo_from_hf alone *)

HubIdle == [pc |-> "idle", resp |-> HubNone, ret |-> None]

\* the entries of an array of the payload: it.get("id") is a namespaced id, or
\* None for an entry without one
HubEntries == {[id |-> None], [id |-> <<"org/a">>], [id |-> <<"org/b">>]}
RECURSIVE HubArraysOfLen(_)
HubArraysOfLen(n) ==
    IF n = 0 THEN {<< >>}
    ELSE {Append(arr, e) : arr \in HubArraysOfLen(n - 1), e \in HubEntries}
HubArrays == UNION {HubArraysOfLen(n) : n \in 0..MaxHubLen}

\* what http_get and r.json() can give the lookup; a missing array is
\* data.get(...) = None, which pick reads as the empty array
HubResponses ==
    {HubNone, HubBad}
        \cup {HubJson(s, m, d) : s \in HubArrays, m \in HubArrays, d \in HubArrays}

\* get_repo_from_hf(arxiv_id_no_ver) on one payload
HubLookup ==
    /\ lookup.pc = "given"
    /\ lookup' = [lookup EXCEPT !.pc = "done", !.ret = get_repo_from_hf(lookup.resp).url]
    /\ UNCHANGED <<h, k, files, pc, run, calls, last, md, pm, sv>>

-----------------------------------------------------------------------------
(* demo: the pipeline driver, one run after another *)

Views == <<"readme", "gitpage", "wechat">>
ViewSet == {Views[i] : i \in 1..Len(Views)}

\* config['kv']: the topics, in the order of the configuration
Keywords == <<"t1">>

\* what an output file holds before the first render: text of an earlier day
StaleMd == <<"> Updated on ", "2023.12.31", "\n">>
InitialMd == [v \in ViewSet |-> StaleMd]

\* the parts of the state that only the stand-alone operations use
OthersIdle == pm = MathIdle /\ sv = SaveIdle /\ lookup = HubIdle

\* publish_readme, publish_gitpage, publish_wechat
Only(view) == [v \in ViewSet |-> v = view]
PublishConfigs == {Only(v) : v \in ViewSet} \cup {[v \in ViewSet |-> TRUE]}

\* a store left by an earlier run whose configuration had another topic
SeedFile(view) ==
    LET got == get_daily_papers("t0", <<PaperT>>, <<NetAbsent>>)
    IN  JsonFile(MergeStore(EmptyDict, <<IF view = "wechat" THEN got.data_web ELSE got.data>>))
InitialFiles(view) == {AbsentFile, EmptyFile, SeedFile(view)}

\* records as a store file edited by hand or written by another version may hold
\* them: a bullet line in a table store, a row cut short, a row with padded cells,
\* and rows as get_daily_papers writes them
LegacyRecords(paper_key) ==
    { WebLine(<<"2024-01-01">>, <<"T">>, <<"A">>, paper_key, None),
      Upto(TableRow(<<"2024-01-01">>, <<"T">>, <<"A">>, paper_key, None), 9),
      <<"|", " ">> \o Tail(TableRow(<<"2024-01-01">>, <<"T">>, <<"A">>, paper_key,
                                     StageUrl("title"))),
      TableRow(<<"2024-01-01">>, <<"T">>, <<"A">>, paper_key, None),
      TableRow(<<"2024-01-01">>, <<"T">>, <<"A">>, paper_key, StageUrl("title")) }
LegacyStores ==
    { << <<"t0", << <<(<<"1">>), a>>, <<(<<"2">>), b>> >> >>,
         <<"t1", << <<(<<"3">>), c>> >> >> >> :
        a \in LegacyRecords(<<"1">>), b \in LegacyRecords(<<"2">>),
        c \in LegacyRecords(<<"3">>) }

NoBatch == [set |-> FALSE, batch |-> << >>]
LastNone == [op |-> "none", view |-> "", before |-> AbsentFile, arg |-> << >>,
             raised |-> FALSE, again |-> FALSE,
             merged |-> [v \in ViewSet |-> NoBatch]]
\* stored: the store mutations of the current run that were saved, view by view
NotStored == [v \in ViewSet |-> << >>]
RunNone(publish) ==
    [n |-> 0, update |-> FALSE, publish |-> publish, ti |-> 1, vi |-> 1,
     data_collector |-> << >>, data_collector_web |-> << >>, stored |-> NotStored]

\* the driver's position after it is done with the view at index vi
AfterView(vi) == IF vi = Len(Views) THEN "idle" ELSE "store"

\* demo is entered: the collectors are empty; a backfill run skips the discovery
StartRun(update) ==
    /\ pc \in {"idle", "crashed"}
    /\ run.n < MaxRuns
    /\ run' = [run EXCEPT !.n = @ + 1, !.update = update, !.ti = 1, !.vi = 1,
                          !.data_collector = << >>, !.data_collector_web = << >>,
                          !.stored = NotStored]
    /\ pc' = IF update THEN "store" ELSE "collect"
    /\ calls' = << >>
    /\ last' = [last EXCEPT !.op = "none", !.view = "", !.before = AbsentFile,
                            !.arg = << >>, !.raised = FALSE, !.again = FALSE]
    /\ UNCHANGED <<h, k, files, md, pm, sv, lookup>>

\* one pass of demo's loop over the topics: get_daily_papers and the two appends
GetDailyPapers(results, nets) ==
    /\ pc = "collect"
    /\ LET got == get_daily_papers(Keywords[run.ti], results, nets)
       IN  /\ run' = [run EXCEPT !.ti = @ + 1,
                                 !.data_collector = Append(@, got.data),
                                 !.data_collector_web = Append(@, got.data_web)]
           /\ calls' = got.calls
    /\ pc' = IF run.ti = Len(Keywords) THEN "store" ELSE "collect"
    /\ last' = [last EXCEPT !.op = "collect", !.view = "", !.before = AbsentFile,
                            !.arg = << >>, !.raised = FALSE, !.again = FALSE]
    /\ UNCHANGED <<h, k, files, md, pm, sv, lookup>>

\* a view that is not published is passed over
SkipView ==
    /\ pc = "store"
    /\ ~run.publish[Views[run.vi]]
    /\ pc' = AfterView(run.vi)
    /\ run' = [run EXCEPT !.vi = IF @ = Len(Views) THEN 1 ELSE @ + 1]
    /\ UNCHANGED <<h, k, files, calls, last, md, pm, sv, lookup>>

\* update_json_file(json_file, data_collector), data_collector_web for wechat
UpdateJsonFile ==
    /\ pc = "store"
    /\ run.publish[Views[run.vi]]
    /\ ~run.update
    /\ LET view      == Views[run.vi]
           data_dict == IF view = "wechat" THEN run.data_collector_web
                        ELSE run.data_collector
           raised    == OpenRaises(files[view])
       IN  /\ files' = IF raised THEN files
                       ELSE [files EXCEPT
                                ![view] = JsonFile(MergeStore(LoadStore(@), data_dict))]
           /\ pc' = IF raised THEN "crashed" ELSE "render"
           /\ last' = [op |-> "merge", view |-> view, before |-> files[view],
                       arg |-> data_dict, raised |-> raised,
                       again |-> last.merged[view] = [set |-> TRUE, batch |-> data_dict],
                       merged |-> IF raised THEN last.merged
                                  ELSE [last.merged EXCEPT
                                           ![view] = [set |-> TRUE, batch |-> data_dict]]]
           /\ run' = IF raised THEN run
                     ELSE [run EXCEPT !.stored[view] = Append(@, "merge")]
    /\ calls' = << >>
    /\ UNCHANGED <<h, k, md, pm, sv, lookup>>

\* update_paper_links(json_file)
UpdatePaperLinks(nets) ==
    /\ pc = "store"
    /\ run.publish[Views[run.vi]]
    /\ run.update
    /\ LET view   == Views[run.vi]
           raised == OpenRaises(files[view])
           done   == BackfillStore(LoadStore(files[view]), nets, << >>)
       IN  /\ files' = IF raised THEN files
                       ELSE [files EXCEPT ![view] = JsonFile(done.store)]
           /\ calls' = IF raised THEN << >> ELSE done.calls
           /\ pc' = IF raised THEN "crashed" ELSE "render"
           /\ last' = [op |-> "backfill", view |-> view, before |-> files[view],
                       arg |-> << >>, raised |-> raised, again |-> FALSE,
                       merged |-> IF raised THEN last.merged
                                  ELSE [last.merged EXCEPT ![view] = NoBatch]]
           /\ run' = IF raised THEN run
                     ELSE [run EXCEPT !.stored[view] = Append(@, "backfill")]
    /\ UNCHANGED <<h, k, md, pm, sv, lookup>>

\* config['show_badge']
ShowBadge == TRUE

\* the options demo gives json_to_md for each view
ViewOptions(view, show_badge) ==
    CASE view = "readme" ->
            [to_web |-> FALSE, use_title |-> TRUE, use_tc |-> TRUE,
             show_badge |-> show_badge, use_b2t |-> TRUE]
      [] view = "gitpage" ->
            [to_web |-> TRUE, use_title |-> TRUE, use_tc |-> FALSE,
             show_badge |-> show_badge, use_b2t |-> FALSE]
      [] view = "wechat" ->
            [to_web |-> FALSE, use_title |-> FALSE, use_tc |-> TRUE,
             show_badge |-> show_badge, use_b2t |-> TRUE]

\* json_to_md on the files of a view: open(filename,"r") raises before the output
\* file is touched; otherwise the output file is rewritten
MdAfter(view, opts, today) ==
    IF OpenRaises(files[view]) THEN md
    ELSE [md EXCEPT ![view] = json_to_md(@, LoadStore(files[view]), opts, today)]

\* what is noted of a render: its options and date, and whether it repeats the
\* render done just before
LastRender(view, opts, today) ==
    [last EXCEPT !.op = "render", !.view = view, !.before = files[view],
                 !.arg = [opts |-> opts, today |-> today],
                 !.raised = OpenRaises(files[view]),
                 !.again = /\ last.op = "render"
                           /\ ~last.raised
                           /\ last.view = view
                           /\ last.before = files[view]
                           /\ last.arg.opts = opts
                           /\ last.arg.today = today]

\* json_to_md(json_file, md_file, ...) as demo calls it for the current view
JsonToMd(today) ==
    /\ pc = "render"
    /\ LET view == Views[run.vi]
       IN  /\ pc' = IF OpenRaises(files[view]) THEN "crashed" ELSE AfterView(run.vi)
           /\ md' = MdAfter(view, ViewOptions(view, ShowBadge), today)
           /\ last' = LastRender(view, ViewOptions(view, ShowBadge), today)
    /\ run' = [run EXCEPT !.vi = IF @ = Len(Views) THEN 1 ELSE @ + 1]
    /\ calls' = << >>
    /\ UNCHANGED <<h, k, files, pm, sv, lookup>>

\* json_to_md called on the readme files with any options
RenderStore(opts, today) ==
    /\ pc = "idle"
    /\ md' = MdAfter("readme", opts, today)
    /\ last' = LastRender("readme", opts, today)
    /\ UNCHANGED <<h, k, files, pc, run, calls, pm, sv, lookup>>

\* the day of the pipeline's runs
RunDays == {<<"2024", "-", "01", "-", "02">>}

\* the nets a backfill pass over the current file of the current view consumes
BackfillNets(netset) ==
    [1..ResolverRuns(LoadStore(files[Views[run.vi]])) -> netset]

Init ==
    /\ h = HttpIdle
    /\ k = KeyIdle
    /\ \E publish \in PublishConfigs :
          /\ run = RunNone(publish)
          /\ \E kind \in {"absent", "empty", "json"} :
                files = [v \in ViewSet |->
                            IF ~publish[v] THEN AbsentFile
                            ELSE CHOOSE f \in InitialFiles(v) : f.kind = kind]
    /\ pc = "idle"
    /\ calls = << >>
    /\ last = LastNone
    /\ md = InitialMd
    /\ OthersIdle

Next ==
    \/ \E update \in BOOLEAN : StartRun(update)
    \/ \E results \in SearchResults :
          \E nets \in [1..Len(results) -> FewNets] : GetDailyPapers(results, nets)
    \/ SkipView
    \/ UpdateJsonFile
    \/ \E nets \in BackfillNets(FewNets) : UpdatePaperLinks(nets)
    \/ \E today \in RunDays : JsonToMd(today)

Spec == Init /\ [][Next]_vars

-----------------------------------------------------------------------------
(* The resolver under every answer of the network, for one discovered paper *)

InitResolve ==
    /\ h = HttpIdle
    /\ k = KeyIdle
    /\ run = RunNone(Only("readme"))
    /\ files = [v \in ViewSet |-> IF v = "readme" THEN EmptyFile ELSE AbsentFile]
    /\ pc = "idle"
    /\ calls = << >>
    /\ last = LastNone
    /\ md = InitialMd
    /\ OthersIdle

NextResolve ==
    \/ \E update \in BOOLEAN : StartRun(update)
    \/ \E net \in ResolveNets : GetDailyPapers(<<PaperT>>, <<net>>)
    \/ SkipView
    \/ UpdateJsonFile
    \/ \E nets \in BackfillNets(ResolveNets) : UpdatePaperLinks(nets)
    \/ \E today \in RunDays : JsonToMd(today)

SpecResolve == InitResolve /\ [][NextResolve]_vars

-----------------------------------------------------------------------------
(* http_get alone, for every retries up to the bound *)

InitPipelineIdle ==
    /\ files = [v \in ViewSet |-> AbsentFile]
    /\ pc = "idle"
    /\ run = RunNone([v \in ViewSet |-> FALSE])
    /\ calls = << >>
    /\ last = LastNone
    /\ md = InitialMd
    /\ OthersIdle

InitHttp == h = HttpIdle /\ k = KeyIdle /\ InitPipelineIdle

NextHttp ==
    \/ \E retries \in 0..MaxRetries : HttpCall(retries)
    \/ \E o \in AttemptOutcomes : HttpAttempt(o)
    \/ HttpGiveUp

SpecHttp == InitHttp /\ [][NextHttp]_vars

-----------------------------------------------------------------------------
(* The canonical key of every identifier of the bounded set *)

InitKey ==
    /\ h = HttpIdle
    /\ \E id \in Identifiers : k = [KeyIdle EXCEPT !.pc = "given", !.id = id]
    /\ InitPipelineIdle

NextKey == Canonicalize \/ Reparse

SpecKey == InitKey /\ [][NextKey]_vars

-----------------------------------------------------------------------------
(* Backfill runs over store files that hold records of every shape *)

InitLegacy ==
    /\ h = HttpIdle
    /\ k = KeyIdle
    /\ run = RunNone(Only("readme"))
    /\ \E store \in LegacyStores :
          files = [v \in ViewSet |-> IF v = "readme" THEN JsonFile(store) ELSE AbsentFile]
    /\ pc = "idle"
    /\ calls = << >>
    /\ last = LastNone
    /\ md = InitialMd
    /\ OthersIdle

NextLegacy ==
    \/ StartRun(TRUE)
    \/ SkipView
    \/ \E nets \in BackfillNets(FewNets) : UpdatePaperLinks(nets)
    \/ \E today \in RunDays : JsonToMd(today)

SpecLegacy == InitLegacy /\ [][NextLegacy]_vars

-----------------------------------------------------------------------------
(* One write-back of a store file, with the points at which it can be stopped *)

InitSave ==
    /\ h = HttpIdle
    /\ k = KeyIdle
    /\ run = RunNone(Only("readme"))
    /\ \E file \in InitialFiles("readme") \cup {JsonFile(store) : store \in LegacyStores} :
          files = [v \in ViewSet |-> IF v = "readme" THEN file ELSE AbsentFile]
    /\ pc = "idle"
    /\ calls = << >>
    /\ last = LastNone
    /\ md = InitialMd
    /\ OthersIdle

NextSave ==
    \/ \E results \in SearchResults : \E nets \in [1..Len(results) -> FewNets] :
          SaveMerge("readme", <<get_daily_papers(Keywords[1], results, nets).data>>)
    \/ \E nets \in BackfillNets(FewNets) : SaveBackfill("readme", nets)
    \/ SaveOpen
    \/ SaveDumpSome
    \/ SaveDumpAll
    \/ SaveInterrupted

SpecSave == InitSave /\ [][NextSave]_vars

-----------------------------------------------------------------------------
(* json_to_md over stores of every shape, with every combination of options *)

\* the papers of a topic: none; keys inserted in descending order; keys inserted
\* in another order, one title with a formula
RenderTopics ==
    { EmptyDict,
      << <<(<<"9">>), TableRow(<<"2024-01-01">>, <<"T">>, <<"A">>, <<"9">>, None)>>,
         <<(<<"1", "0">>), TableRow(<<"2024-01-01">>, <<"T">>, <<"A">>, <<"1", "0">>,
                                    StageUrl("title"))>> >>,
      << <<(<<"1", "0">>), TableRow(<<"2024-01-01">>, <<"T">>, <<"A">>, <<"1", "0">>, None)>>,
         <<(<<"9">>), TableRow(<<"2024-01-01">>, <<"a", "$", " ", "x", "$", "b">>, <<"A">>,
                               <<"9">>, None)>>,
         <<(<<"2">>), TableRow(<<"2024-01-01">>, <<"T">>, <<"A">>, <<"2">>,
                               StageUrl("id"))>> >> }
RenderStores ==
    {EmptyDict}
        \cup {<< <<"SLAM", a>> >> : a \in RenderTopics}
        \cup {<< <<"SLAM", a>>, <<"t0", b>> >> : a \in RenderTopics, b \in RenderTopics}

InitRender ==
    /\ h = HttpIdle
    /\ k = KeyIdle
    /\ run = RunNone(Only("readme"))
    /\ \E file \in {EmptyFile} \cup {JsonFile(store) : store \in RenderStores} :
          files = [v \in ViewSet |-> IF v = "readme" THEN file ELSE AbsentFile]
    /\ pc = "idle"
    /\ calls = << >>
    /\ last = LastNone
    /\ md = InitialMd
    /\ OthersIdle

NextRender == \E opts \in Options : \E today \in Days : RenderStore(opts, today)

SpecRender == InitRender /\ [][NextRender]_vars

-----------------------------------------------------------------------------
(* pretty_math on every line of the bounded set *)

InitMath ==
    /\ h = HttpIdle
    /\ k = KeyIdle
    /\ files = [v \in ViewSet |-> AbsentFile]
    /\ pc = "idle"
    /\ run = RunNone([v \in ViewSet |-> FALSE])
    /\ calls = << >>
    /\ last = LastNone
    /\ md = InitialMd
    /\ \E s \in MathLines : pm = [MathIdle EXCEPT !.pc = "given", !.s = s]
    /\ sv = SaveIdle
    /\ lookup = HubIdle

NextMath == PrettyMath

SpecMath == InitMath /\ [][NextMath]_vars

-----------------------------------------------------------------------------
(* get_repo_from_hf on every payload of the bounded set *)

InitHub ==
    /\ h = HttpIdle
    /\ k = KeyIdle
    /\ files = [v \in ViewSet |-> AbsentFile]
    /\ pc = "idle"
    /\ run = RunNone([v \in ViewSet |-> FALSE])
    /\ calls = << >>
    /\ last = LastNone
    /\ md = InitialMd
    /\ pm = MathIdle
    /\ sv = SaveIdle
    /\ \E resp \in HubResponses : lookup = [HubIdle EXCEPT !.pc = "given", !.resp = resp]

NextHub == HubLookup

SpecHub == InitHub /\ [][NextHub]_vars

-----------------------------------------------------------------------------
(* Properties *)

EndsWith(s, tail) == Len(tail) <= Len(s) /\ SubSeq(s, Len(s) - Len(tail) + 1, Len(s)) = tail

StagePos(stage) == CHOOSE i \in 1..Len(StageOrder) : StageOrder[i] = stage

FindStages == {"qtitle", "qid", "readme"}

\* the requests of one resolver invocation follow the priority order: the hub first,
\* each next request by the next stage (or, when a find_code_repo search could not
\* be read, by the bare-title search), none after a stage that drew a URL, and the
\* result is what the last request drew
ChainInOrder(c) ==
    /\ Len(c.reqs) >= 1
    /\ c.reqs[1].stage = "hub"
    /\ \A a \in 1..(Len(c.reqs) - 1) :
          /\ c.reqs[a].got = None
          /\ \/ StagePos(c.reqs[a + 1].stage) = StagePos(c.reqs[a].stage) + 1
             \/ /\ c.reqs[a].stage \in FindStages
                /\ c.reqs[a].answer = "bad"
                /\ c.reqs[a + 1].stage = "title"
    /\ c.url = c.reqs[Len(c.reqs)].got
    /\ c.url = None => c.reqs[Len(c.reqs)].stage = "id"

\* the papers of the batch get_daily_papers has just returned
LastContent == run.data_collector[Len(run.data_collector)][1][2]

\* the record now stored for a call of the last operation
RecordOf(c) ==
    IF last.op = "collect" THEN DictGet(LastContent, c.paper_id)
    ELSE DictGet(DictGet(LoadStore(files[last.view]), c.topic), c.paper_id)

LinkCell(url) == <<"|">> \o Link(url) \o <<"|", "\n">>
NullCell == <<"|", "null", "|", "\n">>

\* C1: in get_daily_papers and in update_paper_links alike, the stages of every
\* resolver invocation issue their requests in the order hub, quoted title, quoted
\* identifier, README code search, bare title, bare identifier; no stage issues a
\* request after a stage that drew a URL; and the URL recorded is the one drawn by
\* the first stage that drew one (so a hub URL is recorded with no search request).
C1_StagesInPriorityOrder ==
    (last.op \in {"collect", "backfill"} /\ ~last.raised) =>
        \A i \in 1..Len(calls) :
            /\ ChainInOrder(calls[i])
            /\ calls[i].url # None => EndsWith(RecordOf(calls[i]), LinkCell(calls[i].url))
            /\ calls[i].url = None => EndsWith(RecordOf(calls[i]), NullCell)

\* a backfill invocation that went through all six stages and drew its URL at the last
C1_Witness ==
    /\ last.op = "backfill"
    /\ \E i \in 1..Len(calls) :
          /\ Len(calls[i].reqs) = 6
          /\ calls[i].url = StageUrl("id")
          /\ EndsWith(RecordOf(calls[i]), LinkCell(StageUrl("id")))

AllAbsent(c) == \A a \in 1..Len(c.reqs) : c.reqs[a].answer = "none"

\* C2: when every request made for a discovered paper returned absent,
\* get_daily_papers has not raised and the batch it returns holds, under the
\* paper's key, a row whose code cell is the marker null.
C2_UnresolvedIsRecorded ==
    last.op = "collect" =>
        /\ pc # "crashed"
        /\ \A i \in 1..Len(calls) :
              AllAbsent(calls[i]) =>
                  /\ DictHas(LastContent, calls[i].paper_key)
                  /\ EndsWith(DictGet(LastContent, calls[i].paper_key), NullCell)

\* a paper whose six requests all returned absent, recorded with the marker
C2_Witness ==
    /\ last.op = "collect"
    /\ \E i \in 1..Len(calls) :
          /\ Len(calls[i].reqs) = 6
          /\ AllAbsent(calls[i])
          /\ EndsWith(DictGet(LastContent, calls[i].paper_key), NullCell)

\* the <<topic, papers>> pairs of a list of batches
IncomingPairs(data_dict) ==
    UNION {{data_dict[i][j] : j \in 1..Len(data_dict[i])} : i \in 1..Len(data_dict)}
IncomingTopics(data_dict) == {pr[1] : pr \in IncomingPairs(data_dict)}

WellFormedDict(d) == Cardinality(DictKeys(d)) = Len(d)

\* C3: after update_json_file, every incoming identifier of every incoming topic
\* maps to the incoming record, every other identifier stored under that topic
\* keeps its record, every topic that is not incoming is unchanged, and nothing
\* else is in the store.
C3_RightBiasedUnion ==
    (last.op = "merge" /\ ~last.raised) =>
        LET before == LoadStore(last.before)
            after  == LoadStore(files[last.view])
            topics == IncomingTopics(last.arg)
        IN  /\ WellFormedDict(after)
            /\ DictKeys(after) = DictKeys(before) \cup topics
            /\ \A pr \in IncomingPairs(last.arg) :
                  LET old == IF DictHas(before, pr[1]) THEN DictGet(before, pr[1])
                             ELSE EmptyDict
                      new == DictGet(after, pr[1])
                  IN  /\ WellFormedDict(new)
                      /\ DictKeys(new) = DictKeys(old) \cup DictKeys(pr[2])
                      /\ \A key \in DictKeys(pr[2]) :
                            DictGet(new, key) = DictGet(pr[2], key)
                      /\ \A key \in DictKeys(old) \ DictKeys(pr[2]) :
                            DictGet(new, key) = DictGet(old, key)
            /\ \A topic \in DictKeys(before) \ topics :
                  DictGet(after, topic) = DictGet(before, topic)

\* a merge that overwrote a stored record, kept another record of the same topic
\* and left a topic that was not incoming
C3_Witness ==
    /\ last.op = "merge"
    /\ ~last.raised
    /\ LET before == LoadStore(last.before)
       IN  /\ DictKeys(before) \ IncomingTopics(last.arg) # {}
           /\ \E pr \in IncomingPairs(last.arg) :
                 /\ DictHas(before, pr[1])
                 /\ DictKeys(DictGet(before, pr[1])) \ DictKeys(pr[2]) # {}
                 /\ \E key \in DictKeys(pr[2]) \cap DictKeys(DictGet(before, pr[1])) :
                       DictGet(DictGet(before, pr[1]), key) # DictGet(pr[2], key)

\* C4: merging a batch into a store that the same batch was just merged into
\* leaves the persisted store as it was.
C4_MergeIdempotent ==
    (last.op = "merge" /\ ~last.raised /\ last.again) => files[last.view] = last.before

\* a second merge of the same non-empty batch
C4_Witness ==
    /\ last.op = "merge"
    /\ ~last.raised
    /\ last.again
    /\ \E pr \in IncomingPairs(last.arg) : pr[2] # EmptyDict

\* every record of a store, topic by topic
Records(store) ==
    UNION {{store[i][2][j][2] : j \in 1..Len(store[i][2])} : i \in 1..Len(store)}

\* the URLs a resolver stage can draw
ResolverUrls ==
    {StageUrl(stage) : stage \in SearchStages} \cup
    {<<"https://huggingface.co/", t, "/", "org/a">> : t \in {"spaces", "models", "datasets"}}

\* a record that carries a resolved code link: a table row whose last cell is a
\* link, or a bullet line with a Code: part
WebCode(url) == <<",", " ", "Code:", " ", "**", "[">> \o url \o <<"]", "(">> \o url \o <<")", "**", "\n">>
IsTableRow(rec) == rec # << >> /\ Head(rec) = "|"
ResolvedRecord(rec) ==
    \E url \in ResolverUrls :
        IF IsTableRow(rec) THEN EndsWith(rec, LinkCell(url)) ELSE EndsWith(rec, WebCode(url))
UnresolvedRecord(rec) == IsTableRow(rec) /\ EndsWith(rec, NullCell)

\* C5: a backfill pass over a store in which every record carries a resolved
\* code link runs the resolver for no record and issues no request.
C5_ResolvedStoreNotResolvedAgain ==
    (/\ last.op = "backfill"
     /\ ~last.raised
     /\ \A rec \in Records(LoadStore(last.before)) : ResolvedRecord(rec))
        => calls = << >>

\* C6: the backfill pass leaves every record as it was, or replaces the marker
\* null of its code cell with the link to a URL the resolver returned for it; the
\* date, title, author and paper-link cells and a resolved link are as before.
C6_BackfillOnlyFillsLink ==
    (last.op = "backfill" /\ ~last.raised) =>
        LET before == LoadStore(last.before)
            after  == LoadStore(files[last.view])
        IN  /\ DictKeys(after) = DictKeys(before)
            /\ \A topic \in DictKeys(before) :
                  /\ DictKeys(DictGet(after, topic)) = DictKeys(DictGet(before, topic))
                  /\ \A key \in DictKeys(DictGet(before, topic)) :
                        LET old == DictGet(DictGet(before, topic), key)
                            new == DictGet(DictGet(after, topic), key)
                        IN  \/ new = old
                            \/ /\ UnresolvedRecord(old)
                               /\ \E i \in 1..Len(calls) :
                                     /\ calls[i].topic = topic
                                     /\ calls[i].paper_id = key
                                     /\ calls[i].url # None
                                     /\ new = SubSeq(old, 1, Len(old) - Len(NullCell))
                                                 \o LinkCell(calls[i].url)

\* C7: http_get with retries = r makes at most r + 1 requests; it returns the
\* response of the first request answered 200 and makes none after it; when all
\* r + 1 requests failed (another status or an exception, one request each) it
\* returns None; it returns nothing else and raises nothing.
C7_HttpGetBoundedRetries ==
    /\ Len(h.log) <= h.retries + 1
    /\ h.pc = "loop" => h.i = Len(h.log)
    /\ \A a \in 1..(Len(h.log) - 1) : h.log[a] # Status(200)
    /\ h.pc = "returned" =>
          \/ /\ h.ret.kind = "response"
             /\ h.ret.attempt = Len(h.log)
             /\ h.log[Len(h.log)] = Status(200)
          \/ /\ h.ret.kind = "None"
             /\ Len(h.log) = h.retries + 1
             /\ \A a \in 1..Len(h.log) : h.log[a] # Status(200)

\* None after three failed requests, a 403 and a transport exception among them
C7_Witness ==
    /\ h.pc = "returned"
    /\ h.ret.kind = "None"
    /\ h.retries = 2
    /\ Len(h.log) = 3
    /\ \E a, b \in 1..Len(h.log) : h.log[a] = Status(403) /\ h.log[b] = TransportError

\* C8: update_json_file, update_paper_links and json_to_md, given a path whose
\* file is absent or empty, raise nothing (and go on from an empty store).
C8_AbsentOrEmptyLoadsEmpty ==
    (/\ last.op \in {"merge", "backfill", "render"}
     /\ last.before.kind \in {"absent", "empty"})
        => /\ ~last.raised
           /\ pc # "crashed"
           /\ last.op = "merge" =>
                 files[last.view] = JsonFile(MergeStore(EmptyDict, last.arg))
           /\ last.op = "backfill" => files[last.view] = JsonFile(EmptyDict)

\* C9: after a merge or a backfill pass, every record of the store file written
\* has a code link that is a URL or the marker null.
C9_CodeLinkUrlOrMarker ==
    (last.op \in {"merge", "backfill"} /\ ~last.raised) =>
        \A rec \in Records(LoadStore(files[last.view])) :
            ResolvedRecord(rec) \/ UnresolvedRecord(rec)

\* the identifier without its trailing version suffix v<digits>
RECURSIVE TrailingDigits(_)
TrailingDigits(s) ==
    IF s # << >> /\ s[Len(s)] \in Digits THEN TrailingDigits(SubSeq(s, 1, Len(s) - 1)) + 1
    ELSE 0
StripVersionSuffix(id) ==
    LET n == TrailingDigits(id)
    IN  IF n > 0 /\ Len(id) > n /\ id[Len(id) - n] = "v"
        THEN SubSeq(id, 1, Len(id) - n - 1)
        ELSE id

\* C10: the key of an identifier is the identifier without its trailing version
\* suffix (the identifier itself when it has none), the key of a key is the key,
\* and the key the backfill pass reads back from the stored row is the same key.
C10_KeyStripsVersionSuffix ==
    k.pc \in {"keyed", "parsed"} =>
        /\ k.key = StripVersionSuffix(k.id)
        /\ k.again = k.key
        /\ k.pc = "parsed" => k.parsed = k.key

\* the positions of '$' in a line
Dollars(s) == {i \in 1..Len(s) : s[i] = "$"}
NthDollar(s, n) == CHOOSE i \in Dollars(s) : Cardinality({j \in Dollars(s) : j <= i}) = n
OneLine(s) == \A i \in 1..Len(s) : s[i] # "\n"

\* a sequence of spaces removed from both ends
RECURSIVE TrimSpaces(_)
TrimSpaces(t) ==
    IF t # << >> /\ Head(t) = " " THEN TrimSpaces(Tail(t))
    ELSE IF t # << >> /\ t[Len(t)] = " " THEN TrimSpaces(SubSeq(t, 1, Len(t) - 1))
    ELSE t

\* a space, when the character at position i exists and is neither ' ' nor '*'
SeparatorAt(s, i) ==
    IF i >= 1 /\ i <= Len(s) /\ s[i] # " " /\ s[i] # "*" THEN <<" ">> ELSE << >>

\* C14: for a line with exactly one math span (two '$'), pretty_math returns the
\* text before the span unchanged, a space when the character before the span is
\* neither ' ' nor '*', the span with the whitespace inside it trimmed, a space
\* when the character after the span is neither ' ' nor '*', and the text after
\* the span unchanged.
C14_OneSpanSpacing ==
    (pm.pc = "done" /\ OneLine(pm.s) /\ Cardinality(Dollars(pm.s)) = 2) =>
        LET a == NthDollar(pm.s, 1)
            b == NthDollar(pm.s, 2)
        IN  pm.ret = SubSeq(pm.s, 1, a - 1) \o SeparatorAt(pm.s, a - 1) \o <<"$">>
                        \o TrimSpaces(SubSeq(pm.s, a + 1, b - 1)) \o <<"$">>
                        \o SeparatorAt(pm.s, b + 1) \o SubSeq(pm.s, b + 1, Len(pm.s))

\* 'a$ a$a' becomes 'a $a$ a': the inside trimmed and a space added on both sides
C14_Witness ==
    /\ pm.pc = "done"
    /\ pm.s = <<"a", "$", " ", "a", "$">>
    /\ pm.ret = <<"a", " ", "$", "a", "$">>

\* C19: for a line with two or more math spans, everything after the closing '$'
\* of the first span, but for a space added next to it, is returned unchanged.
C19_OnlyFirstSpan ==
    (pm.pc = "done" /\ OneLine(pm.s) /\ Cardinality(Dollars(pm.s)) >= 4) =>
        EndsWith(pm.ret, SubSeq(pm.s, NthDollar(pm.s, 2) + 1, Len(pm.s)))

\* C16: a stage whose 200 response cannot be read yields absent and raises
\* nothing, and the stage next in the priority order still makes its request
\* (the searches inside find_code_repo included).
C16_BadPayloadOnlyThatStage ==
    last.op \in {"collect", "backfill"} =>
        /\ pc # "crashed"
        /\ \A i \in 1..Len(calls) :
              \A a \in 1..Len(calls[i].reqs) :
                  calls[i].reqs[a].answer = "bad" =>
                      /\ calls[i].reqs[a].got = None
                      /\ calls[i].reqs[a].stage # "id" =>
                            /\ a < Len(calls[i].reqs)
                            /\ StagePos(calls[i].reqs[a + 1].stage)
                                  = StagePos(calls[i].reqs[a].stage) + 1

\* the hub URL of an entry of category t
EntryUrl(t, entry) == <<"https://huggingface.co/", t, "/">> \o entry.id

\* C20 as stated: on a payload that was read, the lookup returns the URL of the
\* first entry of spaces if spaces is not empty, else of the first entry of
\* models, else of the first entry of datasets, and absent when all are empty.
C20_FirstEntryOfFirstArray ==
    (lookup.pc = "done" /\ lookup.resp.kind = "json") =>
        lookup.ret =
            IF lookup.resp.spaces # << >> THEN EntryUrl("spaces", lookup.resp.spaces[1])
            ELSE IF lookup.resp.models # << >> THEN EntryUrl("models", lookup.resp.models[1])
            ELSE IF lookup.resp.datasets # << >>
                 THEN EntryUrl("datasets", lookup.resp.datasets[1])
            ELSE None

WithId(arr) == {i \in 1..Len(arr) : arr[i].id # None}
FirstWithId(arr) == arr[CHOOSE i \in WithId(arr) : \A j \in WithId(arr) : i <= j]

\* C20, amended: on a payload that was read, the lookup returns the URL of the
\* first entry that has an id of spaces if spaces has such an entry, else of
\* models, else of datasets, and absent when no entry of the three arrays has an
\* id; it returns absent when the request failed or the payload cannot be read.
C20_FirstEntryWithId ==
    lookup.pc = "done" =>
        lookup.ret =
            IF lookup.resp.kind # "json" THEN None
            ELSE IF WithId(lookup.resp.spaces) # {}
                 THEN EntryUrl("spaces", FirstWithId(lookup.resp.spaces))
            ELSE IF WithId(lookup.resp.models) # {}
                 THEN EntryUrl("models", FirstWithId(lookup.resp.models))
            ELSE IF WithId(lookup.resp.datasets) # {}
                 THEN EntryUrl("datasets", FirstWithId(lookup.resp.datasets))
            ELSE None

\* spaces holds only an entry without id, models an entry without id and then
\* org/a: the lookup returns the models URL of org/a
C20_Witness ==
    /\ lookup.pc = "done"
    /\ lookup.resp.kind = "json"
    /\ lookup.resp.spaces = <<[id |-> None]>>
    /\ lookup.resp.models = <<[id |-> None], [id |-> <<"org/a">>]>>
    /\ lookup.resp.datasets = <<[id |-> <<"org/b">>]>>
    /\ lookup.ret = <<"https://huggingface.co/", "models", "/", "org/a">>

\* a stored record without a code link: a table row with the marker null, or a
\* bullet line without a Code: part
UnresolvedStored(rec) ==
    \/ UnresolvedRecord(rec)
    \/ ~IsTableRow(rec) /\ ~ResolvedRecord(rec)

\* C17: a backfill pass runs the resolver chain for every stored record whose code
\* link is unresolved, and when the chain returns a URL the record persisted
\* carries it; in the readme, the gitpage and the wechat store alike.
C17_UnresolvedAreResolvedAgain ==
    (last.op = "backfill" /\ ~last.raised) =>
        LET before == LoadStore(last.before)
            after  == LoadStore(files[last.view])
        IN  \A topic \in DictKeys(before) :
                \A key \in DictKeys(DictGet(before, topic)) :
                    UnresolvedStored(DictGet(DictGet(before, topic), key)) =>
                        \E i \in 1..Len(calls) :
                            /\ calls[i].topic = topic
                            /\ calls[i].paper_id = key
                            /\ calls[i].url # None =>
                                  LET new == DictGet(DictGet(after, topic), key)
                                  IN  \/ EndsWith(new, LinkCell(calls[i].url))
                                      \/ EndsWith(new, WebCode(calls[i].url))

\* a record that parse_arxiv_string cannot take apart: fewer than six parts
Unparsable(rec) == Cardinality({i \in 1..Len(rec) : rec[i] = "|"}) < 5

\* a row without the spaces that pad its cells
RECURSIVE DropPadding(_)
DropPadding(row) ==
    IF Len(row) < 2 THEN row
    ELSE IF row[1] = "|" /\ row[2] = " " THEN DropPadding(<<"|">> \o SubSeq(row, 3, Len(row)))
    ELSE IF row[1] = " " /\ row[2] = "|" THEN DropPadding(Tail(row))
    ELSE <<Head(row)>> \o DropPadding(Tail(row))

\* C18: a backfill pass leaves a record that cannot be parsed exactly as it was and
\* goes on: every other record of every topic is stored in its normal form, has
\* the resolver run for it when it is unresolved (and carries the URL when one
\* came), and the store is saved.
C18_ParseFailureIsSkipped ==
    (last.op = "backfill" /\ ~last.raised) =>
        LET before == LoadStore(last.before)
            after  == LoadStore(files[last.view])
        IN  /\ pc # "crashed"
            /\ files[last.view].kind = "json"
            /\ DictKeys(after) = DictKeys(before)
            /\ \A topic \in DictKeys(before) :
                  /\ DictKeys(DictGet(after, topic)) = DictKeys(DictGet(before, topic))
                  /\ \A key \in DictKeys(DictGet(before, topic)) :
                        LET old == DictGet(DictGet(before, topic), key)
                            new == DictGet(DictGet(after, topic), key)
                            row == DropPadding(old)
                        IN  IF Unparsable(old) THEN new = old
                            ELSE IF ~UnresolvedRecord(row) THEN new = row
                            ELSE \E i \in 1..Len(calls) :
                                    /\ calls[i].topic = topic
                                    /\ calls[i].paper_id = key
                                    /\ new = IF calls[i].url = None THEN row
                                             ELSE SubSeq(row, 1, Len(row) - Len(NullCell))
                                                      \o LinkCell(calls[i].url)

\* the first record of the first topic cannot be parsed; the record after it and
\* the record of the next topic were unresolved and now carry a URL
C18_Witness ==
    /\ last.op = "backfill"
    /\ ~last.raised
    /\ LET before == LoadStore(last.before)
           after  == LoadStore(files[last.view])
       IN  /\ Unparsable(before[1][2][1][2])
           /\ after[1][2][1][2] = before[1][2][1][2]
           /\ UnresolvedRecord(before[1][2][2][2])
           /\ ResolvedRecord(after[1][2][2][2])
           /\ UnresolvedRecord(before[2][2][1][2])
           /\ ResolvedRecord(after[2][2][1][2])

\* C15: from the moment an operation has loaded the store until its file is
\* closed, and if it is stopped on the way, the store file holds the complete
\* store as it was or the complete new store.
C15_StoreWrittenAtomically ==
    sv.pc \in {"computed", "opened", "dumping", "closed", "stopped"} =>
        \/ files[sv.view] = sv.old
        \/ files[sv.view] = JsonFile(sv.new)

\* where a text first holds sub (an offset from 0), and how often it holds it
Pos(text, sub) ==
    CHOOSE i \in 0..(Len(text) - Len(sub)) :
        /\ StartsWith(From(text, i), sub)
        /\ \A j \in 0..(i - 1) : ~StartsWith(From(text, j), sub)
SubCount(text, sub) ==
    Cardinality({i \in 0..(Len(text) - Len(sub)) : StartsWith(From(text, i), sub)})

\* the heading of a topic's section, and the section: the text from its heading
\* up to the next heading
Heading(topic) == <<"## ", topic, "\n\n">>
SectionOf(text, topic) ==
    LET from == Pos(text, Heading(topic)) + 1
        next == {i \in (from + 1)..Len(text) : text[i] = "## "}
    IN  SubSeq(text, from,
               IF next = {} THEN Len(text)
               ELSE (CHOOSE i \in next : \A j \in next : i <= j) - 1)

\* the paper link of a row
KeyMark(key) == <<"[">> \o key \o <<"]", "(">>

\* the store and the text of the last render
RenderedStore == LoadStore(files[last.view])
RenderedText == md[last.view]
NonEmptyTopics(data) == {topic \in DictKeys(data) : DictGet(data, topic) # EmptyDict}

\* C11: in the section json_to_md writes for a topic, the row of a paper comes
\* before the row of every paper with a smaller identifier, whatever the order
\* of the papers in the store.
C11_SectionsDescending ==
    (last.op = "render" /\ ~last.raised) =>
        \A topic \in NonEmptyTopics(RenderedStore) :
            /\ Contains(RenderedText, Heading(topic))
            /\ \A a, b \in DictKeys(DictGet(RenderedStore, topic)) :
                  LET section == SectionOf(RenderedText, topic)
                  IN  /\ Contains(section, KeyMark(a))
                      /\ StrLess(b, a) =>
                            Pos(section, KeyMark(a)) < Pos(section, KeyMark(b))

\* a topic stored with the keys 10, 9, 2 in this order is written 9, 2, 10
C11_Witness ==
    /\ last.op = "render"
    /\ ~last.raised
    /\ \E topic \in NonEmptyTopics(RenderedStore) :
          LET papers  == DictGet(RenderedStore, topic)
              section == SectionOf(RenderedText, topic)
          IN  /\ Len(papers) = 3
              /\ papers[1][1] = <<"1", "0">>
              /\ papers[2][1] = <<"9">>
              /\ Pos(section, KeyMark(<<"9">>)) < Pos(section, KeyMark(<<"2">>))
              /\ Pos(section, KeyMark(<<"2">>)) < Pos(section, KeyMark(<<"1", "0">>))

\* C12: what the output file holds after json_to_md is what the same call writes
\* into an empty file, whatever the file held before; and a render that repeats
\* the render just done (same store, options and date) leaves the file as it is.
C12_RenderIgnoresPriorContent ==
    [][(last'.op = "render" /\ ~last'.raised) =>
          /\ md'[last'.view] =
                json_to_md(<< >>, LoadStore(files'[last'.view]), last'.arg.opts,
                           last'.arg.today)
          /\ last'.again => md'[last'.view] = md[last'.view]]_vars

\* a store with papers rendered a second time with the same options and date
C12_Witness ==
    /\ last.op = "render"
    /\ ~last.raised
    /\ last.again
    /\ NonEmptyTopics(RenderedStore) # {}
    /\ Contains(RenderedText, <<"## ">>)

Published == {v \in ViewSet : run.publish[v]}
RunMutation == IF run.update THEN "backfill" ELSE "merge"
RunEnded == run.n > 0 /\ pc \in {"idle", "crashed"}

\* the order of demo's steps: no store has two saved mutations in a run nor one
\* of the other kind; a render starts on the store its view's mutation saved;
\* a backfill run makes no discovery query
DriverSequencing ==
    /\ \A v \in ViewSet :
          /\ Len(run.stored[v]) <= 1
          /\ run.stored[v] # << >> => run.publish[v] /\ run.stored[v] = <<RunMutation>>
    /\ pc = "render" =>
          /\ run.stored[Views[run.vi]] = <<RunMutation>>
          /\ last.op = RunMutation
          /\ last.view = Views[run.vi]
          /\ ~last.raised
          /\ files[Views[run.vi]].kind = "json"
    /\ (last.op = "render" /\ ~last.raised) =>
          /\ run.stored[last.view] = <<RunMutation>>
          /\ files[last.view] = last.before
    /\ run.update =>
          /\ run.ti = 1
          /\ run.data_collector = << >>
          /\ run.data_collector_web = << >>
          /\ last.op # "collect"

\* a run that demo returned from has mutated the store of every published view once
CompletedRunStoredAll ==
    (run.n > 0 /\ pc = "idle") => \A v \in Published : run.stored[v] = <<RunMutation>>

\* C21: in every run of demo the store of each published view gets exactly one
\* saved mutation, the merge in a discovery run and the backfill pass in a
\* backfill run, saved before the view is rendered; a backfill run makes no
\* discovery query.
C21_OneMutationPerView ==
    /\ DriverSequencing
    /\ RunEnded => \A v \in Published : run.stored[v] = <<RunMutation>>

\* the record a store file holds for a topic and an identifier, << >> when none
StoredRecord(file, topic, key) ==
    IF DictHas(LoadStore(file), topic) /\ DictHas(DictGet(LoadStore(file), topic), key)
    THEN DictGet(DictGet(LoadStore(file), topic), key)
    ELSE << >>
StoredKeys(file) ==
    UNION {{<<topic, key>> : key \in DictKeys(DictGet(LoadStore(file), topic))} :
              topic \in DictKeys(LoadStore(file))}

\* C22: no step of a discovery or a backfill run turns a stored record that
\* carries a resolved code link into one that carries the marker null, in any
\* store.
C22_ResolvedLinkIsKept ==
    [][\A v \in ViewSet : \A tk \in StoredKeys(files[v]) :
          ResolvedRecord(StoredRecord(files[v], tk[1], tk[2])) =>
              ~UnresolvedStored(StoredRecord(files'[v], tk[1], tk[2]))]_vars

=============================================================================
